---- MODULE Spec2Model ----
(***************************************************************************)
(* A model of the image-to-structured-text pipeline of the repository:     *)
(*   gemma_ocr.py                 validate_image_path, load_image,         *)
(*                                image_to_base64, perform_ocr             *)
(*   gemma_structured_example.py  Label, perform_structured_ocr            *)
(*   app.py                       save_bytes_to_temp_file, process_image   *)
(*                                                                         *)
(* Texts are sequences of one-character strings.  The characters of the    *)
(* model are the ones the code's patterns and the JSON grammar tell apart: *)
(* braces, the double quote, colon, comma, the space (the only whitespace  *)
(* of the model), the period, letters, digits, and SOH, the character      *)
(* chr(1) that the non-raw replacement literals '"\1":' and ':"\1"' of     *)
(* perform_ocr denote.  A field name of Label ("Serial_Number") is one     *)
(* letter-like character of a text.                                        *)
(***************************************************************************)
EXTENDS Integers, Sequences, FiniteSets, TLC

\* ------------------------------------------------------------------ texts

QUOTE == "\""
SOH == "SOH"
Digits == {"1", "2"}

IsSpace(c) == c = " "

\* The first position >= i of s that holds no whitespace (Len(s)+1 if none):
\* where a greedy \s* started at i ends.
RECURSIVE SkipWs(_, _)
SkipWs(s, i) ==
  IF i <= Len(s) /\ IsSpace(s[i]) THEN SkipWs(s, i + 1) ELSE i

\* The first position >= i of s that holds a double quote (Len(s)+1 if none):
\* where a greedy [^"]* started at i ends.
RECURSIVE NextQuote(_, _)
NextQuote(s, i) ==
  IF i <= Len(s) /\ s[i] # QUOTE THEN NextQuote(s, i + 1) ELSE i

\* The first position >= i of s that holds a quote or whitespace: where a
\* greedy [^"\s]* started at i ends.
RECURSIVE NextQuoteOrWs(_, _)
NextQuoteOrWs(s, i) ==
  IF i <= Len(s) /\ s[i] # QUOTE /\ ~IsSpace(s[i])
  THEN NextQuoteOrWs(s, i + 1) ELSE i

\* str.strip(): leading and trailing whitespace removed.
RECURSIVE RStrip(_)
RStrip(s) ==
  IF s # <<>> /\ IsSpace(s[Len(s)]) THEN RStrip(SubSeq(s, 1, Len(s) - 1)) ELSE s

Strip(s) ==
  LET r == RStrip(s) IN SubSeq(r, SkipWs(r, 1), Len(r))

\* ---------------------------------------------- extraction (re.search)

\* re.search(r"\{.*\}", content, re.DOTALL): the leftmost opening brace that
\* has a closing brace after it, up to the last closing brace (greedy).
\* <<>> stands for "no match": a match holds at least the two braces.
FirstOpen(s) ==
  IF \E i \in 1..Len(s) : s[i] = "{"
  THEN CHOOSE i \in 1..Len(s) : s[i] = "{" /\ \A j \in 1..(i - 1) : s[j] # "{"
  ELSE 0

LastClose(s) ==
  IF \E i \in 1..Len(s) : s[i] = "}"
  THEN CHOOSE i \in 1..Len(s) : s[i] = "}" /\ \A j \in (i + 1)..Len(s) : s[j] # "}"
  ELSE 0

\* re.match in place of re.search: the span must start the text.
JsonPatternMatch(content) ==
  LET c == LastClose(content)
  IN  IF content # <<>> /\ content[1] = "{" /\ c > 1 THEN SubSeq(content, 1, c) ELSE <<>>

JsonPatternSearch(content) ==
  LET o == FirstOpen(content)
      c == LastClose(content)
  IN  IF o > 0 /\ c > o THEN SubSeq(content, o, c) ELSE <<>>

\* ------------------------------------------------- the repair passes

\* re.sub(r',\s*}', '}', json_str)
RECURSIVE RemoveTrailingCommasFrom(_, _)
RemoveTrailingCommasFrom(s, i) ==
  IF i > Len(s) THEN <<>>
  ELSE LET j == SkipWs(s, i + 1) IN
       IF s[i] = "," /\ j <= Len(s) /\ s[j] = "}"
       THEN <<"}">> \o RemoveTrailingCommasFrom(s, j + 1)
       ELSE <<s[i]>> \o RemoveTrailingCommasFrom(s, i + 1)

RemoveTrailingCommas(s) == RemoveTrailingCommasFrom(s, 1)

\* re.sub(r'(?<![\{\s,])\s*"', ' "', cleaned): every quote (with the
\* whitespace before it) that does not follow a brace, whitespace or a comma
\* is replaced by a space and a quote.
LookBehindOk(s, i) ==
  i = 1 \/ ~(s[i - 1] = "{" \/ IsSpace(s[i - 1]) \/ s[i - 1] = ",")

RECURSIVE FixMissingCommasFrom(_, _)
FixMissingCommasFrom(s, i) ==
  IF i > Len(s) THEN <<>>
  ELSE LET j == SkipWs(s, i) IN
       IF LookBehindOk(s, i) /\ j <= Len(s) /\ s[j] = QUOTE
       THEN <<" ", QUOTE>> \o FixMissingCommasFrom(s, j + 1)
       ELSE <<s[i]>> \o FixMissingCommasFrom(s, i + 1)

FixMissingCommas(s) == FixMissingCommasFrom(s, 1)

\* The replacement literal '"\1":' is not a raw string: \1 is the character
\* chr(1), not a reference to group 1.
KeyReplacement == <<QUOTE, SOH, QUOTE, ":">>

\* re.sub(r'"\s*([^"]+)\s*":', '"\1":', cleaned): a quote, at least one
\* character that is no quote, the next quote, a colon.
RECURSIVE RemoveExtraSpacesInKeysFrom(_, _)
RemoveExtraSpacesInKeysFrom(s, i) ==
  IF i > Len(s) THEN <<>>
  ELSE LET k == NextQuote(s, i + 1) IN
       IF s[i] = QUOTE /\ k >= i + 2 /\ k + 1 <= Len(s) /\ s[k + 1] = ":"
       THEN KeyReplacement \o RemoveExtraSpacesInKeysFrom(s, k + 2)
       ELSE <<s[i]>> \o RemoveExtraSpacesInKeysFrom(s, i + 1)

RemoveExtraSpacesInKeys(s) == RemoveExtraSpacesInKeysFrom(s, 1)

\* The replacement literal ':"\1"', again with chr(1).
ValueReplacement == <<":", QUOTE, SOH, QUOTE>>

\* re.sub(r':\s*"([^"]+)\s*"', ':"\1"', cleaned)
RECURSIVE RemoveExtraSpacesInValuesFrom(_, _)
RemoveExtraSpacesInValuesFrom(s, i) ==
  IF i > Len(s) THEN <<>>
  ELSE LET j == SkipWs(s, i + 1)
           k == NextQuote(s, j + 1)
       IN  IF s[i] = ":" /\ j <= Len(s) /\ s[j] = QUOTE
              /\ k >= j + 2 /\ k <= Len(s)
           THEN ValueReplacement \o RemoveExtraSpacesInValuesFrom(s, k + 1)
           ELSE <<s[i]>> \o RemoveExtraSpacesInValuesFrom(s, i + 1)

RemoveExtraSpacesInValues(s) == RemoveExtraSpacesInValuesFrom(s, 1)

\* re.sub(r'\s*"([^"]+)\."\s*}', '', cleaned): whitespace, a quoted text of
\* at least two characters ending in a period, whitespace, a closing brace.
\* QuotedClauseEnd is the position of that brace for a match starting at i,
\* 0 when there is none.
QuotedClauseEnd(s, i) ==
  LET j == SkipWs(s, i)
      k == NextQuote(s, j + 1)
      m == SkipWs(s, k + 1)
  IN  IF j <= Len(s) /\ s[j] = QUOTE /\ k <= Len(s) /\ k >= j + 3
         /\ s[k - 1] = "." /\ m <= Len(s) /\ s[m] = "}"
      THEN m ELSE 0

RECURSIVE HandleStandaloneQuotedTextFrom(_, _)
HandleStandaloneQuotedTextFrom(s, i) ==
  IF i > Len(s) THEN <<>>
  ELSE LET m == QuotedClauseEnd(s, i) IN
       IF m > 0 THEN HandleStandaloneQuotedTextFrom(s, m + 1)
       ELSE <<s[i]>> \o HandleStandaloneQuotedTextFrom(s, i + 1)

HandleStandaloneQuotedText(s) == HandleStandaloneQuotedTextFrom(s, 1)

\* re.sub(r'\s*([^"\s]+\.)\s*}', '', cleaned): whitespace, a run of
\* characters that are neither quote nor whitespace, cut after one of its
\* periods (the last one that works: the run is greedy) which is not its
\* first character, whitespace, a closing brace.  TokenEnd is the position
\* of that brace for a match starting at i, 0 when there is none.
TokenEnd(s, i) ==
  LET j == SkipWs(s, i)
      e == NextQuoteOrWs(s, j)
      Works(p) == s[p] = "." /\ LET m == SkipWs(s, p + 1)
                                IN  m <= Len(s) /\ s[m] = "}"
      ps == {p \in (j + 1)..(e - 1) : Works(p)}
  IN  IF ps = {} THEN 0
      ELSE LET p == CHOOSE q \in ps : \A r \in ps : r <= q
           IN  SkipWs(s, p + 1)

RECURSIVE HandleStandaloneTextFrom(_, _)
HandleStandaloneTextFrom(s, i) ==
  IF i > Len(s) THEN <<>>
  ELSE LET m == TokenEnd(s, i) IN
       IF m > 0 THEN HandleStandaloneTextFrom(s, m + 1)
       ELSE <<s[i]>> \o HandleStandaloneTextFrom(s, i + 1)

HandleStandaloneText(s) == HandleStandaloneTextFrom(s, 1)

\* cleaned.rstrip() + '}'
Terminate(s) == RStrip(s) \o <<"}">>

\* The whole sequence of lines 155-164, in the code's order.
Cleaned(json_str) ==
  Terminate(
    HandleStandaloneText(
      HandleStandaloneQuotedText(
        RemoveExtraSpacesInValues(
          RemoveExtraSpacesInKeys(
            FixMissingCommas(
              RemoveTrailingCommas(json_str)))))))

\* ------------------------------------------------ json.loads (strict)

\* A parsed value: t is "str", "num" or "obj"; v holds the characters of a
\* string or of a number; o holds the pairs of an object, in insertion
\* order, one pair per key.
StrValue(chars) == [t |-> "str", v |-> chars, o |-> <<>>]
NumValue(chars) == [t |-> "num", v |-> chars, o |-> <<>>]
ObjValue(pairs) == [t |-> "obj", v |-> <<>>, o |-> pairs]

Failure == [ok |-> FALSE, val |-> StrValue(<<>>), next |-> 0]
Success(val, next) == [ok |-> TRUE, val |-> val, next |-> next]

\* A mapping construction that keeps the first value of a key.
DictSetFirstWins(pairs, k, val) ==
  IF \E n \in 1..Len(pairs) : pairs[n].k = k
  THEN pairs
  ELSE Append(pairs, [k |-> k, val |-> val])

\* dict(pairs) of the decoder: a key seen again keeps its place and takes
\* the later value.
DictSet(pairs, k, val) ==
  IF \E n \in 1..Len(pairs) : pairs[n].k = k
  THEN [n \in 1..Len(pairs) |->
          IF pairs[n].k = k THEN [k |-> k, val |-> val] ELSE pairs[n]]
  ELSE Append(pairs, [k |-> k, val |-> val])

\* The end of a run of digits starting at i.
RECURSIVE SkipDigits(_, _)
SkipDigits(s, i) ==
  IF i <= Len(s) /\ s[i] \in Digits THEN SkipDigits(s, i + 1) ELSE i

\* A string literal whose opening quote is at i: up to the next quote, with
\* no control character inside (strict mode refuses chr(1)).
ParseString(s, i) ==
  LET k == NextQuote(s, i + 1) IN
  IF k <= Len(s) /\ \A n \in (i + 1)..(k - 1) : s[n] # SOH
  THEN Success(StrValue(SubSeq(s, i + 1, k - 1)), k + 1)
  ELSE Failure

\* A number starting at i: digits, then a period and digits if both follow.
ParseNumber(s, i) ==
  LET e == SkipDigits(s, i)
      f == SkipDigits(s, e + 1)
      n == IF e <= Len(s) /\ s[e] = "." /\ f > e + 1 THEN f ELSE e
  IN  Success(NumValue(SubSeq(s, i, n - 1)), n)

RECURSIVE ParseValue(_, _), ParseMembers(_, _, _)

\* The value starting at position i of s.
ParseValue(s, i) ==
  IF i > Len(s) THEN Failure
  ELSE IF s[i] = QUOTE THEN ParseString(s, i)
  ELSE IF s[i] \in Digits THEN ParseNumber(s, i)
  ELSE IF s[i] = "{" THEN
         LET j == SkipWs(s, i + 1) IN
         IF j <= Len(s) /\ s[j] = "}" THEN Success(ObjValue(<<>>), j + 1)
         ELSE ParseMembers(s, j, <<>>)
  ELSE Failure

\* The members of an object from position j (where a key must start), the
\* pairs read so far being acc.
ParseMembers(s, j, acc) ==
  IF ~(j <= Len(s) /\ s[j] = QUOTE) THEN Failure
  ELSE LET key == ParseString(s, j) IN
       IF ~key.ok THEN Failure
       ELSE LET c == SkipWs(s, key.next) IN
            IF ~(c <= Len(s) /\ s[c] = ":") THEN Failure
            ELSE LET val == ParseValue(s, SkipWs(s, c + 1)) IN
                 IF ~val.ok THEN Failure
                 ELSE LET e == SkipWs(s, val.next)
                          pairs == DictSet(acc, key.val.v, val.val)
                      IN  IF e > Len(s) THEN Failure
                          ELSE IF s[e] = "}" THEN Success(ObjValue(pairs), e + 1)
                          ELSE IF s[e] = "," THEN ParseMembers(s, SkipWs(s, e + 1), pairs)
                          ELSE Failure

\* json.loads(s): one value with whitespace around it and nothing else;
\* not ok stands for json.JSONDecodeError.
JsonLoads(s) ==
  LET r == ParseValue(s, SkipWs(s, 1)) IN
  IF r.ok /\ SkipWs(s, r.next) = Len(s) + 1 THEN r ELSE Failure

\* ------------------------------------------------- the service's replies

\* What the model service may answer is described by a shape: the members
\* it meant to write, how it punctuated them, what it left before the
\* closing brace and what it put around the object.  Render gives the text.
MaxMembers == 2

Member(k, t, v) == [k |-> k, t |-> t, v |-> v]

FreeMembers ==
  { Member("a", "str", "1"), Member("a", "str", "2"),
    Member("b", "str", "1"), Member("b", "num", "1") }

\* tight  "a":"1","b":"1"      spaced  "a": "1", "b": "1"
\* loose  "a" :"1" "b" :"1"    (the separators are missing)
Styles == {"tight", "spaced", "loose"}
\* Before the closing brace: nothing, a comma, an unquoted sentence
\* fragment, a quoted clause ending in a period.
Trails == {"none", "comma", "prose", "quoted"}
\* object  {...}      prose     x {...} x.  with whitespace around
\* bare    ...        reversed  }...{
Wraps == {"object", "prose", "bare", "reversed"}

SeqsUpTo(S, n) == UNION {[1..m -> S] : m \in 0..n}

FreeShapes ==
  { [members |-> ms, style |-> st, trail |-> tr, wrap |-> w] :
      ms \in SeqsUpTo(FreeMembers, MaxMembers), st \in Styles,
      tr \in Trails, w \in Wraps }

Colon(style) ==
  CASE style = "tight" -> <<":">>
    [] style = "spaced" -> <<":", " ">>
    [] style = "loose" -> <<" ", ":">>

Separator(style) ==
  CASE style = "tight" -> <<",">>
    [] style = "spaced" -> <<",", " ">>
    [] style = "loose" -> <<" ">>

RenderValue(m) ==
  IF m.t = "str" THEN <<QUOTE, m.v, QUOTE>> ELSE <<m.v>>

RenderMember(m, style) ==
  <<QUOTE, m.k, QUOTE>> \o Colon(style) \o RenderValue(m)

RECURSIVE RenderMembers(_, _)
RenderMembers(ms, style) ==
  IF ms = <<>> THEN <<>>
  ELSE IF Len(ms) = 1 THEN RenderMember(ms[1], style)
  ELSE RenderMember(ms[1], style) \o Separator(style)
         \o RenderMembers(Tail(ms), style)

RenderTrail(trail) ==
  CASE trail = "none" -> <<>>
    [] trail = "comma" -> <<",">>
    [] trail = "prose" -> <<" ", "x", ".">>
    [] trail = "quoted" -> <<" ", QUOTE, "x", ".", QUOTE>>

Render(shape) ==
  LET body == RenderMembers(shape.members, shape.style) \o RenderTrail(shape.trail)
  IN  CASE shape.wrap = "object" -> <<"{">> \o body \o <<"}">>
        [] shape.wrap = "prose" ->
             <<" ", "x", " ", "{">> \o body \o <<"}", " ", "x", ".", " ">>
        [] shape.wrap = "bare" -> body
        [] shape.wrap = "reversed" -> <<"}">> \o body \o <<"{">>

\* The four fields of Label, and the replies of schema-constrained mode:
\* each field left out, written as a string or written as a number, with or
\* without a field the record does not have.
LabelFields == <<"Name", "Model", "Buy_Date", "Serial_Number">>
FieldShapes == {"absent", "str", "num"}

RECURSIVE FieldMembers(_, _)
FieldMembers(assign, n) ==
  IF n > Len(LabelFields) THEN <<>>
  ELSE (IF assign[n] = "absent" THEN <<>>
        ELSE <<Member(LabelFields[n], assign[n], "1")>>)
       \o FieldMembers(assign, n + 1)

SchemaShapes ==
  { [members |-> FieldMembers(assign, 1)
                   \o (IF extra THEN <<Member("Extra", "str", "1")>> ELSE <<>>),
     style |-> "spaced", trail |-> tr, wrap |-> w] :
      assign \in [1..Len(LabelFields) -> FieldShapes], extra \in BOOLEAN,
      tr \in {"none", "comma"}, w \in {"object", "prose", "bare"} }

\* ------------------------------------------------------ image preparation

\* Path(image_path).suffix of the paths tried, and str.lower() on them.
Exts == {".jpg", ".jpeg", ".png", ".gif", ".bmp", ".JPG", ".Png", ".txt", ".jpg2", ""}

Lower(e) ==
  CASE e = ".JPG" -> ".jpg"
    [] e = ".Png" -> ".png"
    [] OTHER -> e

valid_extensions == {".jpg", ".jpeg", ".png", ".gif", ".bmp"}

\* validate_image_path with its two checks in the other order.
validate_image_path_suffix_first(exists, e) ==
  IF ~(Lower(e) \in valid_extensions) THEN "ValueError: Invalid image format"
  ELSE IF ~exists THEN "FileNotFoundError"
  ELSE "none"

\* validate_image_path: the exception it raises, "none" when it returns.
validate_image_path(exists, e) ==
  IF ~exists THEN "FileNotFoundError"
  ELSE IF ~(Lower(e) \in valid_extensions) THEN "ValueError: Invalid image format"
  ELSE "none"

\* ---------------------------------------------------------- the resize

\* scale_factor is a Python float: a binary64 number.  A float of the model
\* is a significand m, a sequence of bits with the highest first and a
\* leading 1, and the exponent e of its last bit: its value is m * 2^e.
\* Every operation rounds its exact result to 53 significant bits, ties to
\* the even significand.
MantissaBits == 53

RECURSIVE BitsOf(_)
BitsOf(n) == IF n = 0 THEN <<>> ELSE Append(BitsOf(n \div 2), n % 2)

RECURSIVE NatOf(_)
NatOf(b) ==
  IF b = <<>> THEN 0 ELSE 2 * NatOf(SubSeq(b, 1, Len(b) - 1)) + b[Len(b)]

RECURSIVE Pow2(_)
Pow2(n) == IF n = 0 THEN 1 ELSE 2 * Pow2(n - 1)

\* b + 1 on a sequence of bits of fixed length; all ones wrap to all zeros.
RECURSIVE Increment(_)
Increment(b) ==
  IF b = <<>> THEN <<>>
  ELSE IF b[Len(b)] = 0 THEN Append(SubSeq(b, 1, Len(b) - 1), 1)
  ELSE Append(Increment(SubSeq(b, 1, Len(b) - 1)), 0)

\* The exact value bits * 2^e (plus something below the last bit when
\* sticky) rounded to the nearest float, ties to even.
RoundToFloat(bits, e, sticky) ==
  IF Len(bits) <= MantissaBits THEN [m |-> bits, e |-> e]
  ELSE LET m == SubSeq(bits, 1, MantissaBits)
           guard == bits[MantissaBits + 1]
           rest == sticky \/ \E n \in (MantissaBits + 2)..Len(bits) : bits[n] = 1
           e1 == e + (Len(bits) - MantissaBits)
           up == guard = 1 /\ (rest \/ m[MantissaBits] = 1)
           inc == Increment(m)
       IN  IF ~up THEN [m |-> m, e |-> e1]
           ELSE IF inc[1] = 1 THEN [m |-> inc, e |-> e1]
           ELSE [m |-> <<1>> \o SubSeq(inc, 1, MantissaBits - 1), e |-> e1 + 1]

\* The quotient r / d continued bit by bit after the bits already found,
\* until one bit more than a significand holds has been found.
RECURSIVE QuotientBits(_, _, _, _)
QuotientBits(r, d, bits, e) ==
  IF Len(bits) = MantissaBits + 1 THEN [bits |-> bits, e |-> e, sticky |-> r # 0]
  ELSE LET bit == IF 2 * r >= d THEN 1 ELSE 0 IN
       QuotientBits(2 * r - bit * d, d,
                    IF bits = <<>> /\ bit = 0 THEN <<>> ELSE Append(bits, bit),
                    e - 1)

\* a / b of two positive ints: Python's true division, correctly rounded.
TrueDivide(a, b) ==
  LET q == QuotientBits(a % b, b, BitsOf(a \div b), 0)
  IN  RoundToFloat(q.bits, q.e, q.sticky)

\* bits * n for a small positive int n, from the last bit up.
RECURSIVE TimesFrom(_, _, _, _)
TimesFrom(bits, i, n, carry) ==
  IF i = 0 THEN BitsOf(carry)
  ELSE LET t == bits[i] * n + carry
       IN  IF t % 2 = 0 THEN Append(TimesFrom(bits, i - 1, n, t \div 2), 0)
           ELSE Append(TimesFrom(bits, i - 1, n, t \div 2), 1)

\* n * f of a positive int and a float: the exact product, rounded.
IntTimesFloat(n, f) ==
  RoundToFloat(TimesFrom(f.m, Len(f.m), n, 0), f.e, FALSE)

\* int(f) of a positive float: the fraction is dropped.
IntOf(f) ==
  IF f.e >= 0 THEN NatOf(f.m) * Pow2(f.e)
  ELSE IF Len(f.m) + f.e <= 0 THEN 0
  ELSE NatOf(SubSeq(f.m, 1, Len(f.m) + f.e))

ReferenceLength == 1024

Max(a, b) == IF a >= b THEN a ELSE b

\* Lines 54-57: long_side, scale_factor, new_width, new_height.
NewSize(original_width, original_height) ==
  LET long_side == Max(original_width, original_height)
      scale_factor == TrueDivide(ReferenceLength, long_side)
  IN  <<IntOf(IntTimesFloat(original_width, scale_factor)),
        IntOf(IntTimesFloat(original_height, scale_factor))>>

\* Encoded sizes and size budgets are counted in one unit (the code's MB).
MaxSize == 2
MaxBudget == 1

StartQuality == 95
QualityStep == 10
QualityFloor == 30

\* The loop's exit test with the floor one step higher.
AcceptEncodingHigherFloor(s, budget, q) == s <= budget \/ q <= QualityFloor + QualityStep

\* Line 68: the encoding is returned when it fits or the quality is low.
AcceptEncoding(s, budget, q) == s <= budget \/ q <= QualityFloor

\* The loop without line 73: the quality is never lowered.
NextQualityUnchanged(q) == q

\* Line 73: quality -= 10.
NextQuality(q) == q - QualityStep

\* ------------------------------------------------------- interpretation

NoResult == [kind |-> "none", pairs |-> <<>>]
DictResult(pairs) == [kind |-> "dict", pairs |-> pairs]
LabelResult(pairs) == [kind |-> "label", pairs |-> pairs]

\* The envelope check without its second half.
HasEnvelopeMessageOnly(resp) == resp # "no_message"

\* Line 140 (189 in schema mode): "message" in response and "content" in
\* response["message"].
HasEnvelope(resp) == resp = "message_content"

\* Lines 141-177 of perform_ocr on the reply's content: the exception raised
\* ("none" when a mapping is returned), the mapping, the steps taken and the
\* cleaned text.
Outcome(err, res, steps, cleaned) ==
  [error |-> err, result |-> res, steps |-> steps, cleaned |-> cleaned]

InterpretFreeForm(raw) ==
  LET content == Strip(raw)
      json_str == JsonPatternSearch(content)
  IN  IF json_str = <<>>
      THEN Outcome("ValueError: No JSON object found", NoResult, {"search"}, <<>>)
      ELSE LET direct == JsonLoads(json_str) IN
           IF direct.ok
           THEN Outcome("none", DictResult(direct.val.o), {"search", "direct"}, <<>>)
           ELSE LET cleaned == Cleaned(json_str)
                    data == JsonLoads(cleaned)
                IN  IF data.ok
                    THEN Outcome("none", DictResult(data.val.o),
                                 {"search", "direct", "repair"}, cleaned)
                    ELSE Outcome("JSONDecodeError", NoResult,
                                 {"search", "direct", "repair"}, cleaned)

\* The value of field f in the pairs of a parsed object (the pairs hold one
\* pair per key).
HasStr(pairs, f) ==
  \E n \in 1..Len(pairs) : pairs[n].k = <<f>> /\ pairs[n].val.t = "str"

FieldPair(pairs, f) ==
  pairs[CHOOSE n \in 1..Len(pairs) : pairs[n].k = <<f>>]

\* Label without its last field.
RequiredFieldsButLast == {LabelFields[n] : n \in 1..(Len(LabelFields) - 1)}

\* The fields Label declares (lines 48-51), all of them required.
RequiredFields == {LabelFields[n] : n \in 1..Len(LabelFields)}

\* Label.model_validate_json(content), lines 190-197: the text is parsed as
\* it is; every field of Label must be there as a string; other fields are
\* ignored; nothing is returned otherwise.
ModelValidateJson(raw) ==
  LET content == Strip(raw)
      data == JsonLoads(content)
  IN  IF data.ok /\ data.val.t = "obj"
         /\ \A f \in RequiredFields : HasStr(data.val.o, f)
      THEN LET fields == SelectSeq(LabelFields, LAMBDA f : f \in RequiredFields)
           IN  Outcome("none",
                       LabelResult([n \in 1..Len(fields) |->
                                      FieldPair(data.val.o, fields[n])]),
                       {"validate"}, <<>>)
      ELSE Outcome("ValidationError", NoResult, {"validate"}, <<>>)

\* ------------------------------------------------------------ the state

VARIABLES
  mode,         \* the entry point: "perform_ocr", "perform_structured_ocr",
                \* or "process_image" (app.py, which calls perform_ocr)
  pc,           \* where the call is
  pathExists,   \* os.path.exists(image_path)
  ext,          \* Path(image_path).suffix
  tempFile,     \* process_image's temporary file: "absent", "exists", "removed"
  opened,       \* Image.open was called
  original_width,   \* image.size of the opened image
  original_height,
  new_width,    \* the size image.resize is called with
  new_height,
  max_size_mb,  \* image_to_base64's size budget
  quality,      \* image_to_base64's quality
  size_mb,      \* the size of the last encoding
  attempts,     \* encodings made
  prepared,     \* image_to_base64 has returned a payload
  requests,     \* requests sent to the model service
  response,     \* the envelope of the reply
  shape,        \* the reply's content as the service built it
  content,      \* the reply's content, a text
  steps,        \* the interpretation steps taken
  cleaned,      \* the repaired text
  result,       \* what perform_ocr / perform_structured_ocr returned
  error,        \* the exception that left perform_ocr / perform_structured_ocr
  appReturn     \* what process_image returned: "pending", "result", "None"

vars ==
  <<mode, pc, pathExists, ext, tempFile, opened, original_width,
    original_height, new_width, new_height, max_size_mb, quality, size_mb,
    attempts, prepared, requests, response, shape, content, steps, cleaned,
    result, error, appReturn>>

\* The variables of the resize (lines 49-59).
sizes == <<original_width, original_height, new_width, new_height>>

\* The sizes of the images the calls are followed on: the 3024x4032 photo
\* of the sample output, and a small image of half its height in width.
ImageSizes == {<<3024, 4032>>, <<49, 98>>}

Modes == {"perform_ocr", "perform_structured_ocr", "process_image"}
FreeForm == mode \in {"perform_ocr", "process_image"}

NoShape == [members |-> <<>>, style |-> "tight", trail |-> "none", wrap |-> "bare"]

Init ==
  /\ mode \in Modes
  /\ pc = IF mode = "process_image" THEN "save_bytes" ELSE "load_image"
  /\ pathExists \in (IF mode = "process_image" THEN {FALSE} ELSE BOOLEAN)
  /\ ext \in (IF mode = "process_image" THEN {""} ELSE Exts)
  /\ tempFile = "absent"
  /\ opened = FALSE
  /\ \E size \in ImageSizes : original_width = size[1] /\ original_height = size[2]
  /\ new_width = 0
  /\ new_height = 0
  /\ max_size_mb \in 0..MaxBudget
  /\ quality = 0
  /\ size_mb = 0
  /\ attempts = 0
  /\ prepared = FALSE
  /\ requests = 0
  /\ response = "none"
  /\ shape = NoShape
  /\ content = <<>>
  /\ steps = {}
  /\ cleaned = <<>>
  /\ result = NoResult
  /\ error = "none"
  /\ appReturn = "pending"

\* process_image without its finally clause.
FinallyKeepsFile(f) == f

\* os.unlink(temp_file_path) in process_image's finally clause.
FinallyUnlink(f) == "removed"

\* perform_ocr / perform_structured_ocr ends, raising err or returning res.
\* Under process_image the finally clause then removes the temporary file
\* and the except clause turns an exception into None (lines 36-41).
Leave(err, res) ==
  /\ pc' = "done"
  /\ error' = err
  /\ result' = res
  /\ tempFile' = IF mode = "process_image" THEN FinallyUnlink(tempFile) ELSE tempFile
  /\ appReturn' = IF mode # "process_image" THEN appReturn
                  ELSE IF err = "none" THEN "result" ELSE "None"

\* save_bytes_to_temp_file (app.py 13-24) as process_image calls it: the
\* file is created with the suffix .jpg; when writing or closing fails it is
\* removed again and the exception ends process_image with None.
SaveBytesToTempFile ==
  /\ pc = "save_bytes"
  /\ \E step \in {"created_and_written", "create_fails", "write_fails"} :
       CASE step = "created_and_written" ->
              /\ tempFile' = "exists"
              /\ pathExists' = TRUE
              /\ ext' = ".jpg"
              /\ pc' = "load_image"
              /\ UNCHANGED <<error, appReturn>>
         [] step = "create_fails" ->
              /\ pc' = "done"
              /\ error' = "OSError"
              /\ appReturn' = "None"
              /\ UNCHANGED <<tempFile, pathExists, ext>>
         [] step = "write_fails" ->
              /\ tempFile' = "removed"
              /\ pc' = "done"
              /\ error' = "OSError"
              /\ appReturn' = "None"
              /\ UNCHANGED <<pathExists, ext>>
  /\ UNCHANGED <<mode, opened, max_size_mb, quality, size_mb, attempts, prepared,
                 requests, response, shape, content, steps, cleaned, result>>
  /\ UNCHANGED sizes

\* load_image (40-43) under image_to_base64 (47-62): the path is validated,
\* the image opened (PIL may refuse the file), resized, and the quality set.
LoadImage ==
  /\ pc = "load_image"
  /\ LET invalid == validate_image_path(pathExists, ext) IN
     IF invalid # "none"
     THEN /\ Leave(invalid, NoResult)
          /\ UNCHANGED <<opened, quality, new_width, new_height>>
     ELSE /\ opened' = TRUE
          /\ \E identified \in BOOLEAN :
               IF identified
               THEN /\ new_width' = NewSize(original_width, original_height)[1]
                    /\ new_height' = NewSize(original_width, original_height)[2]
                    /\ quality' = StartQuality
                    /\ pc' = "encode"
                    /\ UNCHANGED <<error, result, tempFile, appReturn>>
               ELSE /\ Leave("UnidentifiedImageError", NoResult)
                    /\ UNCHANGED <<quality, new_width, new_height>>
  /\ UNCHANGED <<mode, pathExists, ext, max_size_mb, size_mb, attempts, prepared,
                 requests, response, shape, content, steps, cleaned,
                 original_width, original_height>>

\* One pass of the loop of lines 63-73: encode at the current quality (the
\* encoder may fail), measure, return or lower the quality.
Encode ==
  /\ pc = "encode"
  /\ \/ /\ Leave("OSError", NoResult)
        /\ UNCHANGED <<size_mb, attempts, quality, prepared>>
     \/ \E s \in 0..MaxSize :
          /\ size_mb' = s
          /\ attempts' = attempts + 1
          /\ IF AcceptEncoding(s, max_size_mb, quality)
             THEN /\ prepared' = TRUE
                  /\ pc' = "prepared"
                  /\ UNCHANGED quality
             ELSE /\ quality' = NextQuality(quality)
                  /\ UNCHANGED <<prepared, pc>>
          /\ UNCHANGED <<error, result, tempFile, appReturn>>
  /\ UNCHANGED <<mode, pathExists, ext, opened, max_size_mb, requests, response,
                 shape, content, steps, cleaned>>
  /\ UNCHANGED sizes

\* client.chat(...) is called (lines 101-138; 157-186 in schema mode).
\* image_to_base64 has returned: its frame (sizes, budget, quality) is gone.
Chat ==
  /\ pc = "prepared"
  /\ requests' = requests + 1
  /\ pc' = "awaiting_reply"
  /\ max_size_mb' = 0
  /\ quality' = 0
  /\ size_mb' = 0
  /\ attempts' = 0
  /\ original_width' = 0
  /\ original_height' = 0
  /\ new_width' = 0
  /\ new_height' = 0
  /\ UNCHANGED <<mode, pathExists, ext, tempFile, opened, prepared, response, shape,
                 content, steps, cleaned, result, error, appReturn>>

\* client.chat raises (the service cannot be reached, or refuses).
ChatRaises ==
  /\ pc = "awaiting_reply"
  /\ Leave("ResponseError", NoResult)
  /\ UNCHANGED <<mode, pathExists, ext, opened, max_size_mb, quality, size_mb,
                 attempts, prepared, requests, response, shape, content, steps,
                 cleaned>>
  /\ UNCHANGED sizes

\* What client.chat may return: a reply without "message", one whose
\* message has no "content", or a reply with content.
Replies ==
  {[envelope |-> e, shape |-> NoShape] : e \in {"no_message", "message_no_content"}}
  \cup {[envelope |-> "message_content", shape |-> sh] :
          sh \in (IF FreeForm THEN FreeShapes ELSE SchemaShapes)}

\* client.chat returns; the reply is checked for its envelope and its
\* content interpreted (lines 140-178; 189-199 in schema mode).
ChatReturns ==
  /\ pc = "awaiting_reply"
  /\ \E reply \in Replies :
       LET raw == Render(reply.shape)
           o == IF FreeForm THEN InterpretFreeForm(raw) ELSE ModelValidateJson(raw)
       IN  /\ response' = reply.envelope
           /\ shape' = reply.shape
           /\ content' = raw
           /\ IF HasEnvelope(reply.envelope)
              THEN /\ steps' = o.steps
                   /\ cleaned' = o.cleaned
                   /\ Leave(o.error, o.result)
              ELSE /\ Leave("ValueError: Invalid response format", NoResult)
                   /\ UNCHANGED <<steps, cleaned>>
  /\ UNCHANGED <<mode, pathExists, ext, opened, max_size_mb, quality, size_mb,
                 attempts, prepared, requests>>
  /\ UNCHANGED sizes

Next ==
  \/ SaveBytesToTempFile
  \/ LoadImage
  \/ Encode
  \/ Chat
  \/ ChatRaises
  \/ ChatReturns

Spec == Init /\ [][Next]_vars

\* image_to_base64 runs its loop in one thread without waiting for anything:
\* while the loop has not been left, its next pass is made.
LiveSpec == Spec /\ WF_vars(Encode)

\* --------------------------------------- the repair sequence on its own

\* The repair sequence of lines 155-164 applied to a text whatever it is,
\* and the strict parse of what it gives (lines 167-175).
RepairInit ==
  /\ mode = "perform_ocr"
  /\ pc = "repair_input"
  /\ shape \in {sh \in FreeShapes : sh.wrap = "object"}
  /\ content = Render(shape)
  /\ pathExists = TRUE
  /\ ext = ".jpg"
  /\ tempFile = "absent"
  /\ opened = FALSE
  /\ original_width = 0
  /\ original_height = 0
  /\ new_width = 0
  /\ new_height = 0
  /\ max_size_mb = 0
  /\ quality = 0
  /\ size_mb = 0
  /\ attempts = 0
  /\ prepared = FALSE
  /\ requests = 0
  /\ response = "none"
  /\ steps = {}
  /\ cleaned = <<>>
  /\ result = NoResult
  /\ error = "none"
  /\ appReturn = "pending"

ApplyRepair ==
  /\ pc = "repair_input"
  /\ LET c == Cleaned(content)
         data == JsonLoads(c)
     IN  /\ cleaned' = c
         /\ steps' = {"repair"}
         /\ error' = IF data.ok THEN "none" ELSE "JSONDecodeError"
         /\ result' = IF data.ok THEN DictResult(data.val.o) ELSE NoResult
  /\ pc' = "repaired"
  /\ UNCHANGED <<mode, pathExists, ext, tempFile, opened, max_size_mb, quality,
                 size_mb, attempts, prepared, requests, response, shape, content,
                 appReturn>>
  /\ UNCHANGED sizes

RepairNext == ApplyRepair

RepairSpec == RepairInit /\ [][RepairNext]_vars

\* ------------------------------------------------ the resize on its own

MaxDim == 100

\* The sides of the images the resize is followed on: every small side, and
\* the sides of the 3024x4032 photo of the sample output.
Dims == (1..MaxDim) \cup {3024, 4032}

\* perform_ocr called on an existing image file of any of these sizes.
ResizeInit ==
  /\ mode = "perform_ocr"
  /\ pc = "load_image"
  /\ pathExists = TRUE
  /\ ext = ".jpg"
  /\ tempFile = "absent"
  /\ opened = FALSE
  /\ original_width \in Dims
  /\ original_height \in Dims
  /\ new_width = 0
  /\ new_height = 0
  /\ max_size_mb = 0
  /\ quality = 0
  /\ size_mb = 0
  /\ attempts = 0
  /\ prepared = FALSE
  /\ requests = 0
  /\ response = "none"
  /\ shape = NoShape
  /\ content = <<>>
  /\ steps = {}
  /\ cleaned = <<>>
  /\ result = NoResult
  /\ error = "none"
  /\ appReturn = "pending"

\* The call is followed up to the resize.
ResizeNext == LoadImage

ResizeSpec == ResizeInit /\ [][ResizeNext]_vars

\* ------------------------------------------------------------ the claims

\* What a shape says about its text.
ValueOf(m) == IF m.t = "str" THEN StrValue(<<m.v>>) ELSE NumValue(<<m.v>>)

\* The mapping the members of a shape denote: each key bound to the value
\* of the last member that has it.
LastWins(ms) ==
  [k \in {<<ms[n].k>> : n \in 1..Len(ms)} |->
     LET last == CHOOSE n \in 1..Len(ms) :
                   /\ <<ms[n].k>> = k
                   /\ \A m \in (n + 1)..Len(ms) : <<ms[m].k>> # k
     IN  ValueOf(ms[last])]

\* The pairs of a result as a mapping; the pairs hold each key once.
MappingOf(pairs) ==
  [k \in {pairs[n].k : n \in 1..Len(pairs)} |->
     pairs[CHOOSE n \in 1..Len(pairs) : pairs[n].k = k].val]

Denotes(pairs, ms) ==
  /\ Cardinality({pairs[n].k : n \in 1..Len(pairs)}) = Len(pairs)
  /\ MappingOf(pairs) = LastWins(ms)

\* The brace span of the reply is the object the shape wrote.
Braced(sh) == sh.wrap \in {"object", "prose"}

\* The object is strictly valid: nothing before the closing brace, and the
\* separators written (a single member needs none).
WellFormed(sh) ==
  /\ sh.trail = "none"
  /\ sh.style \in {"tight", "spaced"} \/ Len(sh.members) <= 1

AllStrings(ms) == \A n \in 1..Len(ms) : ms[n].t = "str"

\* Well-formed pairs of quoted strings, then one comma before the brace.
TrailingCommaForm(sh) ==
  /\ sh.trail = "comma"
  /\ sh.style \in {"tight", "spaced"}
  /\ Len(sh.members) >= 1
  /\ AllStrings(sh.members)

Interpreted == pc = "done" /\ FreeForm /\ response = "message_content"

\* C1: a reply whose brace span is a well-formed object of quoted string
\* pairs but for one trailing comma before the final brace is repaired:
\* perform_ocr returns the mapping of those pairs instead of failing.
C1_TrailingCommaRepaired ==
  (Interpreted /\ Braced(shape) /\ TrailingCommaForm(shape))
    => (error = "none" /\ result.kind = "dict" /\ Denotes(result.pairs, shape.members))

C4_TempFileReleased ==
  (mode = "process_image" /\ (pc = "done" \/ appReturn # "pending"))
    => tempFile # "exists"

C4_Witness ==
  /\ mode = "process_image" /\ pc = "done" /\ appReturn = "None"
  /\ requests = 1 /\ error = "JSONDecodeError" /\ tempFile = "removed"

\* C5: at most one request is sent to the model service, and only after
\* image preparation has succeeded; a reply without the message/content
\* envelope ends the call with the invalid-response error, with no second
\* request and no interpretation step.
C5_SingleRequestNoRetry ==
  /\ requests <= 1
  /\ requests = 1 => prepared
  /\ (pc = "done" /\ response \in {"no_message", "message_no_content"})
       => /\ error = "ValueError: Invalid response format"
          /\ result.kind = "none"
          /\ requests = 1
          /\ steps = {}

C5_Witness ==
  /\ pc = "done" /\ response = "message_no_content" /\ requests = 1
  /\ error = "ValueError: Invalid response format"

\* C6: when the brace span is strictly valid, perform_ocr returns exactly
\* the mapping of the span, each duplicated key bound to its last value, and
\* applies no repair step.
C6_DirectParseLastWins ==
  (Interpreted /\ Braced(shape) /\ WellFormed(shape))
    => /\ error = "none"
       /\ result.kind = "dict"
       /\ Denotes(result.pairs, shape.members)
       /\ steps = {"search", "direct"}
       /\ cleaned = <<>>

\* {"a":"1","a":"2"} has given {"a":"2"}.
C6_Witness ==
  /\ Interpreted
  /\ content = <<"{", QUOTE, "a", QUOTE, ":", QUOTE, "1", QUOTE, ",",
                      QUOTE, "a", QUOTE, ":", QUOTE, "2", QUOTE, "}">>
  /\ result = DictResult(<<[k |-> <<"a">>, val |-> StrValue(<<"2">>)]>>)
  /\ steps = {"search", "direct"}

\* The text holds an opening brace with a closing brace somewhere after it.
HasBracePair(s) ==
  \E i \in 1..Len(s) : \E j \in (i + 1)..Len(s) : s[i] = "{" /\ s[j] = "}"

\* C7: free-form interpretation fails with the no-structure error exactly
\* when the reply text holds no opening brace followed later by a closing
\* brace; then neither the direct parse nor a repair step is attempted.
C7_NoStructureFailure ==
  Interpreted
    => /\ (error = "ValueError: No JSON object found") <=> ~HasBracePair(content)
       /\ (error = "ValueError: No JSON object found")
            => (steps = {"search"} /\ result.kind = "none" /\ cleaned = <<>>)

\* A reply with both braces, in the wrong order.
C7_Witness ==
  /\ Interpreted /\ error = "ValueError: No JSON object found"
  /\ shape.wrap = "reversed" /\ Len(shape.members) = 1

\* The reply is syntactically valid and carries the four fields as strings.
CarriesLabel(sh) ==
  /\ sh.wrap = "object"
  /\ sh.trail = "none"
  /\ \A n \in 1..Len(LabelFields) :
       \E m \in 1..Len(sh.members) :
         sh.members[m].k = LabelFields[n] /\ sh.members[m].t = "str"

\* C8: perform_structured_ocr returns a Label only when the reply is
\* syntactically valid and carries all four fields as strings; every other
\* reply fails with the validation error, with no repair pass and no
\* partial record.
C8_SchemaStrictness ==
  (pc = "done" /\ mode = "perform_structured_ocr" /\ response = "message_content")
    => /\ result.kind = "label" => (CarriesLabel(shape) /\ Len(result.pairs) = 4)
       /\ ~CarriesLabel(shape)
            => (error = "ValidationError" /\ result.kind = "none")
       /\ steps = {"validate"}
       /\ cleaned = <<>>

\* Only Serial_Number is missing.
C8_Witness ==
  /\ pc = "done" /\ mode = "perform_structured_ocr"
  /\ shape.wrap = "object" /\ shape.trail = "none"
  /\ shape.members = <<Member("Name", "str", "1"), Member("Model", "str", "1"),
                       Member("Buy_Date", "str", "1")>>
  /\ error = "ValidationError" /\ result.kind = "none"

\* The suffixes that are jpg, jpeg, png, gif or bmp in some case.
Recognized ==
  {".jpg", ".jpeg", ".png", ".gif", ".bmp", ".JPG", ".Png"}

\* C9: a path that does not exist fails with the not-found error whatever
\* its extension; a path that exists with an extension that is none of jpg,
\* jpeg, png, gif, bmp in any case fails with the invalid-format error; in
\* both cases the image is not opened, no request is sent, and the error
\* leaves perform_ocr.
C9_SourceValidation ==
  (pc = "done" /\ mode # "process_image")
    => /\ ~pathExists
            => (error = "FileNotFoundError" /\ ~opened /\ requests = 0
                /\ result.kind = "none")
       /\ (pathExists /\ ext \notin Recognized)
            => (error = "ValueError: Invalid image format" /\ ~opened
                /\ requests = 0 /\ result.kind = "none")

\* A missing path with an extension that is not recognized either.
C9_Witness ==
  /\ pc = "done" /\ mode = "perform_ocr" /\ ~pathExists /\ ext = ".txt"
  /\ error = "FileNotFoundError"

\* C10: every mapping perform_ocr returns, by the direct parse or by the
\* repair parse, maps string keys to string values only.
C10_StringValuesOnly ==
  (Interpreted /\ result.kind = "dict")
    => \A n \in 1..Len(result.pairs) : result.pairs[n].val.t = "str"

Min(a, b) == IF a <= b THEN a ELSE b

\* C11: once image_to_base64 has computed the target size of an image of
\* width >= 1 and height >= 1, the longer target dimension is at most 1024,
\* the shorter target dimension is the shorter source dimension times 1024
\* divided by the longer source dimension, truncated toward zero, and
\* 3024x4032 has given 768x1024.
C11_ResizeTruncates ==
  (pc = "encode" /\ original_width >= 1 /\ original_height >= 1)
    => /\ Max(new_width, new_height) <= ReferenceLength
       /\ Min(new_width, new_height) =
            (Min(original_width, original_height) * ReferenceLength)
              \div Max(original_width, original_height)
       /\ (<<original_width, original_height>> = <<3024, 4032>>
             => <<new_width, new_height>> = <<768, 1024>>)

\* C12: the quality loop of image_to_base64 is left whatever sizes the
\* encoder gives and whatever the budget, after at most 8 encodings; the
\* n-th encoding is made at quality 95 - 10 * (n - 1); an encoding is made
\* again only when the one before was over the budget, and the loop returns
\* at the encoding whose size is at or below the budget.
C12_LoopTerminates ==
  /\ [](pc = "encode" =>
          /\ attempts <= 7
          /\ quality = 95 - 10 * attempts
          /\ (attempts > 0 => size_mb > max_size_mb))
  /\ [](pc = "prepared" =>
          /\ attempts \in 1..8
          /\ quality = 95 - 10 * (attempts - 1))
  /\ [][(pc = "encode" /\ attempts' = attempts + 1 /\ size_mb' <= max_size_mb)
          => (pc' = "prepared" /\ quality' = quality)]_vars
  /\ (pc = "encode" ~> pc # "encode")

C12_Witness ==
  /\ pc = "prepared" /\ attempts = 3 /\ quality = 75
  /\ size_mb <= max_size_mb

====
